---- MODULE Spec2Model ----
(***************************************************************************)
(* Session coordinator of the study-session platform (the hardened server, *)
(* src/unnamed/part_002): the in-memory registry `sessions`, the socket.io *)
(* connection handler and its per-event handlers, the empty-grace timer,  *)
(* the delayed teardown after session:end and the periodic max-age sweep. *)
(*                                                                         *)
(* Node runs every handler to completion, so one handler is one action.   *)
(* A server-side socket.disconnect() runs the 'disconnect' handler inline, *)
(* inside the caller's action; disconnect(true) (kick) closes the          *)
(* transport as well: the handler runs inline or, where the transport is   *)
(* slow to close, when the transport has closed.                           *)
(*                                                                         *)
(* Time is discrete and relative: a timer carries the ticks it has left   *)
(* and a session its age (Date.now() - createdAt).  The durations keep    *)
(* the order of the source, 2 s < 5 min < 24 h.  A timer fires when it is *)
(* due: time does not advance past a due timer.  The phase of the hourly  *)
(* sweep against the other events is arbitrary, so the sweep may run at   *)
(* any moment.  A token that has expired is a token the server rejects:   *)
(* clients present one whenever they like (ExpiredTokens).                *)
(* The member cap is scaled to the users of the model.                    *)
(***************************************************************************)
EXTENDS Integers, Sequences, FiniteSets, Bags, TLC

\* ------------------------------------------------------------------ bounds
MaxSockets  == 2    \* connections ever opened (socket ids are never reused)
MaxRoomSockets == 3 \* connections ever opened where only hosts attach and chat
MaxSessions == 2    \* session objects ever created
MaxUsers    == 2    \* user ids ever generated (tokens ever issued)
MaxMsgs     == 2    \* messages per session log
MaxEndTimers == 1   \* pending delayed teardowns at one time

\* ------------------------------------------------- configuration (CONFIG)
MAX_SESSION_AGE == 3                \* 24 h, in ticks
SESSION_CLEANUP_GRACE_PERIOD == 2   \* 5 min
SESSION_END_DELAY == 1              \* 2000 ms
MAX_MESSAGE_LENGTH == 500
MAX_USERNAME_LENGTH == 30
MAX_MEMBERS_PER_SESSION == 1          \* 50, scaled to the users of this model
MAX_CODE_ATTEMPTS == 10

Codes   == {"A", "B"}               \* the values randomBytes(3) may take
Sockets == 1..MaxRoomSockets
Sids    == 1..MaxSessions
Users   == 1..MaxUsers
NULL    == 0

VARIABLES
  sessions,   \* the Map sessions: code -> session object (its id) or NULL
  heap,       \* the session objects, by identity
  nextSid,    \* session objects created so far
  sockets,    \* the connections: state, identity claims, captured session
  rooms,      \* socket.io rooms: code -> socket ids in join order
  timers,     \* pending setTimeout callbacks, a bag
  tokens,     \* the credentials issued
  nextUser,   \* user ids generated so far
  op,         \* the operation that ran last, its input and its response
  out         \* what the server sent during that operation, in order

vars == <<sessions, heap, nextSid, sockets, rooms, timers, tokens,
          nextUser, op, out>>

\* ------------------------------------------------------------- data shapes
NoSession == [code |-> "", hostId |-> NULL, members |-> <<>>, messages |-> <<>>,
              age |-> 0, status |-> "none", cleanupTimer |-> NULL]

Emit(to, ev, arg) == [to |-> to, ev |-> ev, arg |-> arg]

\* ----------------------------------------------------------------- strings
\* A string is kept as what the validators look at: the whitespace in front,
\* the length from the first to the last non-whitespace character, the
\* whitespace behind, and whether every character is in [a-zA-Z0-9\s_-].
\* Missing stands for undefined, null or a non-string.
Missing == [lead |-> 0, core |-> 0, trail |-> 0, charset |-> TRUE, str |-> FALSE]

Str(l, c, t, ok) == [lead |-> l, core |-> c, trail |-> t, charset |-> ok, str |-> TRUE]

NoSocket == [state |-> "idle", userId |-> NULL, username |-> Missing,
             sessionCode |-> "", isHost |-> FALSE, session |-> NULL, chat |-> <<>>]

GoneSocket == [NoSocket EXCEPT !.state = "closed"]

length(s) == s.lead + s.core + s.trail

trim(s) == [s EXCEPT !.lead = 0, !.trail = 0]

validateUsername(username) ==
  IF ~username.str \/ length(username) = 0
    THEN [valid |-> FALSE, error |-> "Username is required", username |-> Missing]
  ELSE IF length(trim(username)) = 0
    THEN [valid |-> FALSE, error |-> "Username cannot be empty", username |-> Missing]
  ELSE IF length(trim(username)) > MAX_USERNAME_LENGTH
    THEN [valid |-> FALSE, error |-> "Username too long", username |-> Missing]
  ELSE IF ~trim(username).charset
    THEN [valid |-> FALSE, error |-> "Username contains invalid characters",
          username |-> Missing]
  ELSE [valid |-> TRUE, error |-> "", username |-> trim(username)]

validateMessage_NoLengthCheck(message) ==
  IF ~message.str \/ length(message) = 0
    THEN [valid |-> FALSE, error |-> "Message is required", message |-> Missing]
  ELSE IF length(trim(message)) = 0
    THEN [valid |-> FALSE, error |-> "Message cannot be empty", message |-> Missing]
  ELSE [valid |-> TRUE, error |-> "", message |-> trim(message)]

validateMessage(message) ==
  IF ~message.str \/ length(message) = 0
    THEN [valid |-> FALSE, error |-> "Message is required", message |-> Missing]
  ELSE IF length(trim(message)) = 0
    THEN [valid |-> FALSE, error |-> "Message cannot be empty", message |-> Missing]
  ELSE IF length(trim(message)) > MAX_MESSAGE_LENGTH
    THEN [valid |-> FALSE, error |-> "Message too long", message |-> Missing]
  ELSE [valid |-> TRUE, error |-> "", message |-> trim(message)]

\* The strings requests carry in this model.
Names == {Str(1, 2, 1, TRUE), Str(0, MAX_USERNAME_LENGTH + 1, 0, TRUE)}

\* Chat texts: 501 characters of which the first is a blank, 501 characters
\* without a blank at either end, the empty string, blanks only, no string.
Texts == {Str(1, MAX_MESSAGE_LENGTH, 0, TRUE), Str(0, MAX_MESSAGE_LENGTH + 1, 0, TRUE),
          Str(0, 0, 0, TRUE), Str(1, 0, 1, TRUE), Missing}

\* String.prototype.toUpperCase on the session codes a request may carry.
CodeInputs == Codes \cup {"b", ""}

toUpperCase(c) == CASE c = "a" -> "A" [] c = "b" -> "B" [] OTHER -> c

\* ------------------------------------------------------------ array helpers
Range(seq) == {seq[i] : i \in 1..Len(seq)}

\* Array.prototype.findIndex, 1-based; 0 where JavaScript answers -1.
findIndex(seq, Test(_)) ==
  IF \E i \in 1..Len(seq) : Test(seq[i])
    THEN CHOOSE i \in 1..Len(seq) : Test(seq[i]) /\ \A j \in 1..(i - 1) : ~Test(seq[j])
    ELSE 0

\* Array.prototype.splice(index, 1)
splice(seq, index) == [i \in 1..(Len(seq) - 1) |-> IF i < index THEN seq[i] ELSE seq[i + 1]]

without(seq, x) == SelectSeq(seq, LAMBDA y : y # x)

\* ------------------------------------------------------------ the server state
\* The handlers below are functions from a world W (the mutable state of the
\* process and what has been sent so far in the running handler) to a world.
World == [sessions |-> sessions, heap |-> heap, sockets |-> sockets,
          rooms |-> rooms, timers |-> timers, out |-> <<>>]

\* sessions.get(code): the session object registered under code, or NULL.
get(W, code) == IF code \in Codes THEN W.sessions[code] ELSE NULL

Timer(kind, code, owner, left) == [kind |-> kind, code |-> code, owner |-> owner, left |-> left]

\* clearTimeout(handle): the handle of a session's cleanup timer is the session
\* that armed it, because a session arms a new one only after clearing the old.
clearTimeout(pending, handle) ==
  LET mine == {t \in BagToSet(pending) : t.kind = "grace" /\ t.owner = handle}
  IN  pending (-) SetToBag(mine)

setTimeout(pending, t) == pending (+) SetToBag({t})

\* Sending ev to the sockets of `to`, in order.  sockets[s].chat is the
\* client's side of connection s: the chat messages it has been sent.
Deliver(W, to, ev, arg) ==
  [W EXCEPT
     !.out = @ \o [i \in 1..Len(to) |-> Emit(to[i], ev, arg)],
     !.sockets = [s \in Sockets |->
                    IF ev = "chat:message" /\ s \in Range(to)
                      THEN [@[s] EXCEPT !.chat = Append(@, arg)]
                      ELSE @[s]]]

\* io.to(room).emit(ev, arg)
ioToEmit(W, room, ev, arg) == Deliver(W, W.rooms[room], ev, arg)

\* socket.to(room).emit(ev, arg): the room without the socket itself
socketToEmit(W, s, room, ev, arg) == Deliver(W, without(W.rooms[room], s), ev, arg)

\* socket.emit(ev, arg)
socketEmit(W, s, ev, arg) == Deliver(W, <<s>>, ev, arg)

scheduleSessionCleanup(W, sessionCode) ==
  LET sid == get(W, sessionCode)
      session == W.heap[sid]
      cleared == IF session.cleanupTimer # NULL
                   THEN clearTimeout(W.timers, session.cleanupTimer)
                   ELSE W.timers
  IN  IF sid = NULL THEN W
      ELSE [W EXCEPT
              !.timers = setTimeout(cleared, Timer("grace", sessionCode, sid,
                                                   SESSION_CLEANUP_GRACE_PERIOD)),
              !.heap[sid].cleanupTimer = sid]

cancelSessionCleanup(W, sessionCode) ==
  LET sid == get(W, sessionCode)
  IN  IF sid # NULL /\ W.heap[sid].cleanupTimer # NULL
        THEN [W EXCEPT !.timers = clearTimeout(@, W.heap[sid].cleanupTimer),
                       !.heap[sid].cleanupTimer = NULL]
        ELSE W

cleanupCallback_NoRecheck(W, sessionCode) ==
  [W EXCEPT !.sessions[sessionCode] = NULL]

\* The callback of the cleanup timer (scheduleSessionCleanup, setTimeout body).
cleanupCallback(W, sessionCode) ==
  LET sid == get(W, sessionCode)
  IN  IF sid # NULL /\ Len(W.heap[sid].members) = 0
        THEN [W EXCEPT !.sessions[sessionCode] = NULL]
        ELSE W

\* socket.on('disconnect')
disconnectHandler_KeepHostLeft(W, s) ==
  LET sessionCode == W.sockets[s].sessionCode
      sid == get(W, sessionCode)
      session == W.heap[sid]
      memberIndex == findIndex(session.members, LAMBDA m : m.socketId = s)
      leftMember == session.members[memberIndex]
      W1 == [W EXCEPT !.heap[sid].members = splice(@, memberIndex)]
      W2 == socketToEmit(W1, s, sessionCode, "member:left", leftMember.userId)
      W3 == IF leftMember.isHost /\ session.status # "ended"
              THEN socketToEmit([W2 EXCEPT !.heap[sid].status = "host-left"],
                                s, sessionCode, "host:left", leftMember.userId)
              ELSE W2
      W4 == IF Len(W3.heap[sid].members) = 0 /\ W3.heap[sid].status # "host-left"
              THEN scheduleSessionCleanup(W3, sessionCode)
              ELSE W3
  IN  IF sid = NULL THEN W
      ELSE IF memberIndex # 0 THEN W4
      ELSE W

disconnectHandler_HostLeftAlways(W, s) ==
  LET sessionCode == W.sockets[s].sessionCode
      sid == get(W, sessionCode)
      session == W.heap[sid]
      memberIndex == findIndex(session.members, LAMBDA m : m.socketId = s)
      leftMember == session.members[memberIndex]
      W1 == [W EXCEPT !.heap[sid].members = splice(@, memberIndex)]
      W2 == socketToEmit(W1, s, sessionCode, "member:left", leftMember.userId)
      W3 == IF leftMember.isHost
              THEN socketToEmit([W2 EXCEPT !.heap[sid].status = "host-left"],
                                s, sessionCode, "host:left", leftMember.userId)
              ELSE W2
      W4 == IF Len(W3.heap[sid].members) = 0
              THEN scheduleSessionCleanup(W3, sessionCode)
              ELSE W3
  IN  IF sid = NULL THEN W
      ELSE IF memberIndex # 0 THEN W4
      ELSE W

disconnectHandler_KeepsMember(W, s) ==
  LET sessionCode == W.sockets[s].sessionCode
      sid == get(W, sessionCode)
      session == W.heap[sid]
      memberIndex == findIndex(session.members, LAMBDA m : m.socketId = s)
      leftMember == session.members[memberIndex]
      W2 == socketToEmit(W, s, sessionCode, "member:left", leftMember.userId)
      W3 == IF leftMember.isHost /\ session.status # "ended"
              THEN socketToEmit([W2 EXCEPT !.heap[sid].status = "host-left"],
                                s, sessionCode, "host:left", leftMember.userId)
              ELSE W2
  IN  IF sid = NULL THEN W
      ELSE IF memberIndex # 0 THEN W3
      ELSE W

disconnectHandler_ByUserId(W, s) ==
  LET sessionCode == W.sockets[s].sessionCode
      sid == get(W, sessionCode)
      session == W.heap[sid]
      memberIndex == findIndex(session.members, LAMBDA m : m.userId = W.sockets[s].userId)
      leftMember == session.members[memberIndex]
      W1 == [W EXCEPT !.heap[sid].members = splice(@, memberIndex)]
      W2 == socketToEmit(W1, s, sessionCode, "member:left", leftMember.userId)
      W3 == IF leftMember.isHost /\ session.status # "ended"
              THEN socketToEmit([W2 EXCEPT !.heap[sid].status = "host-left"],
                                s, sessionCode, "host:left", leftMember.userId)
              ELSE W2
      W4 == IF Len(W3.heap[sid].members) = 0
              THEN scheduleSessionCleanup(W3, sessionCode)
              ELSE W3
  IN  IF sid = NULL THEN W
      ELSE IF memberIndex # 0 THEN W4
      ELSE W

disconnectHandler(W, s) ==
  LET sessionCode == W.sockets[s].sessionCode
      sid == get(W, sessionCode)
      session == W.heap[sid]
      memberIndex == findIndex(session.members, LAMBDA m : m.socketId = s)
      leftMember == session.members[memberIndex]
      W1 == [W EXCEPT !.heap[sid].members = splice(@, memberIndex)]
      W2 == socketToEmit(W1, s, sessionCode, "member:left", leftMember.userId)
      W3 == IF leftMember.isHost /\ session.status # "ended"
              THEN socketToEmit([W2 EXCEPT !.heap[sid].status = "host-left"],
                                s, sessionCode, "host:left", leftMember.userId)
              ELSE W2
      W4 == IF Len(W3.heap[sid].members) = 0
              THEN scheduleSessionCleanup(W3, sessionCode)
              ELSE W3
  IN  IF sid = NULL THEN W
      ELSE IF memberIndex # 0 THEN W4
      ELSE W

\* socket.io closing a socket (server-side socket.disconnect(), or the
\* transport closing): the socket leaves its rooms, then 'disconnect' is
\* emitted to the handler above, then the socket object is dropped.
onclose(W, s) ==
  LET left == [W EXCEPT !.rooms = [c \in Codes |-> without(@[c], s)],
                        !.out = Append(@, Emit(s, "disconnect", NULL))]
      done == disconnectHandler(left, s)
  IN  [done EXCEPT !.sockets[s] = GoneSocket]

\* socketsInRoom.forEach(socketId => io.sockets.sockets.get(socketId)?.disconnect())
RECURSIVE disconnectRoom(_, _)
disconnectRoom(W, room) ==
  IF W.rooms[room] = <<>> THEN W
  ELSE disconnectRoom(onclose(W, Head(W.rooms[room])), room)

\* ------------------------------------------------------------- credentials
\* jwt.sign / jwt.verify: a token carries its claims; sig tells a token this
\* server signed from a forged or garbled one, expired whether its 24 h
\* ({ expiresIn: '24h' }) have passed.
Token(userId, username, sessionCode, isHost) ==
  [userId |-> userId, username |-> username, sessionCode |-> sessionCode,
   isHost |-> isHost, expired |-> FALSE, sig |-> "ok"]

createToken(userId, username, sessionCode, isHost) ==
  Token(userId, username, sessionCode, isHost)

NoToken == [Token(NULL, Missing, "", FALSE) EXCEPT !.sig = "none"]

ForgedTokens == {[Token(1, Str(0, 2, 0, TRUE), "A", TRUE) EXCEPT !.sig = "bad"]}

ExpiredTokens == {[Token(1, Str(0, 2, 0, TRUE), "A", TRUE) EXCEPT !.expired = TRUE]}

\* The claims, or NoClaims where jwt.verify throws and verifyToken returns null.
NoClaims == NoToken

verifyToken_IgnoreExpiry(token) == IF token.sig = "ok" THEN token ELSE NoClaims

verifyToken(token) == IF token.sig = "ok" /\ ~token.expired THEN token ELSE NoClaims

\* ------------------------------------------------------- session code draws
\* generateSessionCode, given the values crypto.randomBytes returns in turn.
generateLoop_FirstDraw(W, draws, attempts) == [code |-> draws[1], attempts |-> 1]

RECURSIVE generateLoop(_, _, _)
generateLoop(W, draws, attempts) ==
  LET code == draws[attempts + 1]
      n == attempts + 1
  IN  IF get(W, code) # NULL /\ n < MAX_CODE_ATTEMPTS
        THEN generateLoop(W, draws, n)
        ELSE [code |-> code, attempts |-> n]

generateSessionCode(W, draws) ==
  LET r == generateLoop(W, draws, 0)
  IN  IF r.attempts >= MAX_CODE_ATTEMPTS
        THEN [thrown |-> TRUE, code |-> "", attempts |-> r.attempts]
        ELSE [thrown |-> FALSE, code |-> r.code, attempts |-> r.attempts]

\* The draws of this model: k times one code, then another.
DrawSeqs == {[i \in 1..MAX_CODE_ATTEMPTS |-> IF i <= k THEN c ELSE d] :
               k \in {0, 1, MAX_CODE_ATTEMPTS - 1}, c \in Codes, d \in Codes}

\* ------------------------------------------------------ connection handlers
Member(s, decoded) == [userId |-> decoded.userId, username |-> decoded.username,
                       socketId |-> s, isHost |-> decoded.isHost]

\* "Add or update member": the members after socket s of this identity attached.
addOrUpdateMember_AlwaysPush(members, s, decoded) == Append(members, Member(s, decoded))

addOrUpdateMember_KeepSocket(members, s, decoded) ==
  IF findIndex(members, LAMBDA m : m.userId = decoded.userId) # 0
    THEN members
    ELSE Append(members, Member(s, decoded))

addOrUpdateMember(members, s, decoded) ==
  LET existingMemberIndex == findIndex(members, LAMBDA m : m.userId = decoded.userId)
  IN  IF existingMemberIndex # 0
        THEN [members EXCEPT ![existingMemberIndex].socketId = s]
        ELSE Append(members, Member(s, decoded))

connectionHandler_JoinedToAll(W, s, decoded) ==
  LET sessionCode == toUpperCase(decoded.sessionCode)
      sid == get(W, sessionCode)
      W0 == [W EXCEPT !.sockets[s] =
               [state |-> "connected", userId |-> decoded.userId,
                username |-> decoded.username,
                sessionCode |-> sessionCode, isHost |-> decoded.isHost,
                session |-> sid, chat |-> <<>>]]
      W1 == cancelSessionCleanup(W0, sessionCode)
      existingMemberIndex ==
        findIndex(W1.heap[sid].members, LAMBDA m : m.userId = decoded.userId)
      W2 == [W1 EXCEPT !.heap[sid].members = addOrUpdateMember(@, s, decoded)]
      W3 == [W2 EXCEPT !.rooms[sessionCode] = Append(@, s)]
      state == [members |-> W3.heap[sid].members,
                messages |-> W3.heap[sid].messages,
                status |-> W3.heap[sid].status]
      W4 == socketEmit(W3, s, "session:state", state)
  IN  IF sid = NULL THEN [W EXCEPT !.sockets[s] = GoneSocket]
      ELSE IF existingMemberIndex = 0
        THEN ioToEmit(W4, sessionCode, "member:joined", decoded.userId)
        ELSE W4

connectionHandler_RestoresActive(W, s, decoded) ==
  LET sessionCode == toUpperCase(decoded.sessionCode)
      sid == get(W, sessionCode)
      W0 == [W EXCEPT !.sockets[s] =
               [state |-> "connected", userId |-> decoded.userId,
                username |-> decoded.username,
                sessionCode |-> sessionCode, isHost |-> decoded.isHost,
                session |-> sid, chat |-> <<>>]]
      W1 == cancelSessionCleanup(W0, sessionCode)
      existingMemberIndex ==
        findIndex(W1.heap[sid].members, LAMBDA m : m.userId = decoded.userId)
      W2 == [W1 EXCEPT !.heap[sid].members = addOrUpdateMember(@, s, decoded),
                       !.heap[sid].status =
                          IF decoded.isHost /\ @ = "host-left" THEN "active" ELSE @]
      W3 == [W2 EXCEPT !.rooms[sessionCode] = Append(@, s)]
      state == [members |-> W3.heap[sid].members,
                messages |-> W3.heap[sid].messages,
                status |-> W3.heap[sid].status]
      W4 == socketEmit(W3, s, "session:state", state)
  IN  IF sid = NULL THEN [W EXCEPT !.sockets[s] = GoneSocket]
      ELSE IF existingMemberIndex = 0
        THEN socketToEmit(W4, s, sessionCode, "member:joined", decoded.userId)
        ELSE W4

connectionHandler_NoCancel(W, s, decoded) ==
  LET sessionCode == toUpperCase(decoded.sessionCode)
      sid == get(W, sessionCode)
      W0 == [W EXCEPT !.sockets[s] =
               [state |-> "connected", userId |-> decoded.userId,
                username |-> decoded.username,
                sessionCode |-> sessionCode, isHost |-> decoded.isHost,
                session |-> sid, chat |-> <<>>]]
      W1 == W0
      existingMemberIndex ==
        findIndex(W1.heap[sid].members, LAMBDA m : m.userId = decoded.userId)
      W2 == [W1 EXCEPT !.heap[sid].members = addOrUpdateMember(@, s, decoded)]
      W3 == [W2 EXCEPT !.rooms[sessionCode] = Append(@, s)]
      state == [members |-> W3.heap[sid].members,
                messages |-> W3.heap[sid].messages,
                status |-> W3.heap[sid].status]
      W4 == socketEmit(W3, s, "session:state", state)
  IN  IF sid = NULL THEN [W EXCEPT !.sockets[s] = GoneSocket]
      ELSE IF existingMemberIndex = 0
        THEN socketToEmit(W4, s, sessionCode, "member:joined", decoded.userId)
        ELSE W4

\* io.on('connection'), after the middleware io.use has set the socket fields.
connectionHandler(W, s, decoded) ==
  LET sessionCode == toUpperCase(decoded.sessionCode)
      sid == get(W, sessionCode)
      W0 == [W EXCEPT !.sockets[s] =
               [state |-> "connected", userId |-> decoded.userId,
                username |-> decoded.username,
                sessionCode |-> sessionCode, isHost |-> decoded.isHost,
                session |-> sid, chat |-> <<>>]]
      W1 == cancelSessionCleanup(W0, sessionCode)
      existingMemberIndex ==
        findIndex(W1.heap[sid].members, LAMBDA m : m.userId = decoded.userId)
      W2 == [W1 EXCEPT !.heap[sid].members = addOrUpdateMember(@, s, decoded)]
      W3 == [W2 EXCEPT !.rooms[sessionCode] = Append(@, s)]
      state == [members |-> W3.heap[sid].members,
                messages |-> W3.heap[sid].messages,
                status |-> W3.heap[sid].status]
      W4 == socketEmit(W3, s, "session:state", state)
  IN  IF sid = NULL THEN [W EXCEPT !.sockets[s] = GoneSocket]
      ELSE IF existingMemberIndex = 0
        THEN socketToEmit(W4, s, sessionCode, "member:joined", decoded.userId)
        ELSE W4

\* socket.on('chat:message'); `session` is the object the connection captured.
chatMessage_NotToSender(W, s, text) ==
  LET socket == W.sockets[s]
      validation == validateMessage(text)
      sid == socket.session
      message == [messageId |-> <<sid, Len(W.heap[sid].messages) + 1>>,
                  userId |-> socket.userId, username |-> socket.username,
                  message |-> validation.message]
  IN  IF ~validation.valid THEN socketEmit(W, s, "error", validation.error)
      ELSE socketToEmit([W EXCEPT !.heap[sid].messages = Append(@, message)],
                        s, socket.sessionCode, "chat:message", message)

chatMessage_KeepLatest(W, s, text) ==
  LET socket == W.sockets[s]
      validation == validateMessage(text)
      sid == socket.session
      message == [messageId |-> <<sid, Len(W.heap[sid].messages) + 1>>,
                  userId |-> socket.userId, username |-> socket.username,
                  message |-> validation.message]
  IN  IF ~validation.valid THEN socketEmit(W, s, "error", validation.error)
      ELSE ioToEmit([W EXCEPT !.heap[sid].messages = <<message>>],
                    socket.sessionCode, "chat:message", message)

chatMessage_PushTwice(W, s, text) ==
  LET socket == W.sockets[s]
      validation == validateMessage(text)
      sid == socket.session
      message == [messageId |-> <<sid, Len(W.heap[sid].messages) + 1>>,
                  userId |-> socket.userId, username |-> socket.username,
                  message |-> validation.message]
  IN  IF ~validation.valid THEN socketEmit(W, s, "error", validation.error)
      ELSE ioToEmit([W EXCEPT !.heap[sid].messages = Append(Append(@, message), message)],
                    socket.sessionCode, "chat:message", message)

chatMessage(W, s, text) ==
  LET socket == W.sockets[s]
      validation == validateMessage(text)
      sid == socket.session
      message == [messageId |-> <<sid, Len(W.heap[sid].messages) + 1>>,
                  userId |-> socket.userId, username |-> socket.username,
                  message |-> validation.message]
  IN  IF ~validation.valid THEN socketEmit(W, s, "error", validation.error)
      ELSE ioToEmit([W EXCEPT !.heap[sid].messages = Append(@, message)],
                    socket.sessionCode, "chat:message", message)

hostLeave_RemovesHost(W, s) ==
  LET socket == W.sockets[s]
      left == [W EXCEPT !.heap[socket.session].status = "host-left",
                        !.heap[socket.session].members =
                           SelectSeq(@, LAMBDA m : m.userId # socket.userId)]
  IN  IF ~socket.isHost
        THEN socketEmit(W, s, "error", "Only host can trigger this action")
        ELSE ioToEmit(left, socket.sessionCode, "host:left", socket.userId)

\* socket.on('host:leave')
hostLeave(W, s) ==
  LET socket == W.sockets[s]
  IN  IF ~socket.isHost
        THEN socketEmit(W, s, "error", "Only host can trigger this action")
        ELSE ioToEmit([W EXCEPT !.heap[socket.session].status = "host-left"],
                      socket.sessionCode, "host:left", socket.userId)

\* socket.on('session:end'), up to the setTimeout it arms.
sessionEnd_NoHostCheck(W, s) ==
  LET socket == W.sockets[s]
      W1 == ioToEmit([W EXCEPT !.heap[socket.session].status = "ended"],
                     socket.sessionCode, "session:ended", NULL)
  IN  [W1 EXCEPT !.timers =
         setTimeout(@, Timer("end", socket.sessionCode, socket.session,
                             SESSION_END_DELAY))]

sessionEnd(W, s) ==
  LET socket == W.sockets[s]
      W1 == ioToEmit([W EXCEPT !.heap[socket.session].status = "ended"],
                     socket.sessionCode, "session:ended", NULL)
  IN  IF ~socket.isHost
        THEN socketEmit(W, s, "error", "Only host can end the session")
        ELSE [W1 EXCEPT !.timers =
                setTimeout(@, Timer("end", socket.sessionCode, socket.session,
                                    SESSION_END_DELAY))]

sessionEndCallback_NoDelete(W, sessionCode) == disconnectRoom(W, sessionCode)

\* The callback session:end arms.
sessionEndCallback(W, sessionCode) ==
  [disconnectRoom(W, sessionCode) EXCEPT !.sessions[sessionCode] = NULL]

\* socket.on('member:kick').  targetSocket.disconnect(true) closes the
\* transport under the connection: where the transport can close on the spot
\* the 'disconnect' handler has run before disconnect(true) returns (now),
\* otherwise it runs when the transport has closed.
memberKick_AllowsHost(W, s, targetUserId, now) ==
  LET socket == W.sockets[s]
      members == W.heap[socket.session].members
      targetIndex == findIndex(members, LAMBDA m : m.userId = targetUserId)
      targetMember == members[targetIndex]
      target == targetMember.socketId
      W1 == socketEmit(W, target, "session:kicked", NULL)
  IN  IF ~socket.isHost THEN socketEmit(W, s, "error", "Only host can kick members")
      ELSE IF targetUserId = NULL
        THEN socketEmit(W, s, "error", "Target user ID is required")
      ELSE IF targetIndex = 0 THEN socketEmit(W, s, "error", "Member not found")
      ELSE IF W.sockets[target].state \in {"connected", "closing"}
        THEN IF now THEN onclose(W1, target)
             ELSE [W1 EXCEPT !.sockets[target].state = "closing"]
      ELSE W

memberKick(W, s, targetUserId, now) ==
  LET socket == W.sockets[s]
      members == W.heap[socket.session].members
      targetIndex == findIndex(members, LAMBDA m : m.userId = targetUserId)
      targetMember == members[targetIndex]
      target == targetMember.socketId
      W1 == socketEmit(W, target, "session:kicked", NULL)
  IN  IF ~socket.isHost THEN socketEmit(W, s, "error", "Only host can kick members")
      ELSE IF targetUserId = NULL
        THEN socketEmit(W, s, "error", "Target user ID is required")
      ELSE IF targetIndex = 0 THEN socketEmit(W, s, "error", "Member not found")
      ELSE IF targetMember.isHost THEN socketEmit(W, s, "error", "Cannot kick the host")
      ELSE IF W.sockets[target].state \in {"connected", "closing"}
        THEN IF now THEN onclose(W1, target)
             ELSE [W1 EXCEPT !.sockets[target].state = "closing"]
      ELSE W

memberLeave_SkipsHandler(W, s) ==
  [W EXCEPT !.rooms = [c \in Codes |-> without(@[c], s)],
            !.out = Append(@, Emit(s, "disconnect", NULL)),
            !.sockets[s] = GoneSocket]

\* socket.on('member:leave')
memberLeave(W, s) == onclose(W, s)

typing_EchoToSender(W, s, ev) ==
  ioToEmit(W, W.sockets[s].sessionCode, ev, W.sockets[s].userId)

\* socket.on('typing:start'), socket.on('typing:stop')
typing(W, s, ev) == socketToEmit(W, s, W.sockets[s].sessionCode, ev, W.sockets[s].userId)

\* The inner loop of the sweep: each socket of the room is sent the expiry
\* notice and disconnected.
RECURSIVE expireRoom(_, _)
expireRoom(W, code) ==
  IF W.rooms[code] = <<>> THEN W
  ELSE LET socket == Head(W.rooms[code])
       IN  expireRoom(onclose(socketEmit(W, socket, "session:ended", NULL), socket), code)

\* now - session.createdAt > CONFIG.MAX_SESSION_AGE
expired_AtMaxAge(session) == session.age >= MAX_SESSION_AGE

expired(session) == session.age > MAX_SESSION_AGE

\* The setInterval callback, visiting the sessions in the given order.
RECURSIVE sweep(_, _)
sweep(W, codes) ==
  IF codes = <<>> THEN W
  ELSE LET code == Head(codes)
           sid == get(W, code)
       IN  IF sid # NULL /\ expired(W.heap[sid])
             THEN sweep([expireRoom(W, code) EXCEPT !.sessions[code] = NULL], Tail(codes))
             ELSE sweep(W, Tail(codes))

\* ----------------------------------------------------------------- actions
\* A session object nothing can reach any more (not registered, captured by
\* no open connection) is garbage; the createdAt of an unregistered object is
\* read by nothing.
Reclaim(W) ==
  [W EXCEPT !.heap = [sid \in Sids |->
     IF \E c \in Codes : W.sessions[c] = sid THEN @[sid]
     ELSE IF \E s \in Sockets : W.sockets[s].state \in {"connected", "closing"}
                                 /\ W.sockets[s].session = sid
       THEN [@[sid] EXCEPT !.age = 0]
     ELSE NoSession]]

Op(name, s, code, arg, res) == [name |-> name, s |-> s, code |-> code, arg |-> arg, res |-> res]

\* op and out are the observation of one operation.  Any operation of a
\* behaviour may be the observed one: it runs as it always does and its
\* input, response and emissions are recorded, which ends the behaviour.
\* The operations before it run unobserved and leave op and out blank.
Quiet == Op("", NULL, "", NULL, "")

Commit(W, o) ==
  LET V == Reclaim(W)
  IN  /\ op.name = ""
      /\ sessions' = V.sessions
      /\ heap' = V.heap
      /\ sockets' = V.sockets
      /\ rooms' = V.rooms
      /\ timers' = V.timers
      /\ \/ op' = o /\ out' = V.out
         \/ op' = Quiet /\ out' = <<>>

Init ==
  /\ sessions = [c \in Codes |-> NULL]
  /\ heap = [sid \in Sids |-> NoSession]
  /\ nextSid = 1
  /\ sockets = [s \in Sockets |-> NoSocket]
  /\ rooms = [c \in Codes |-> <<>>]
  /\ timers = EmptyBag
  /\ tokens = {}
  /\ nextUser = 1
  /\ op = Quiet
  /\ out = <<>>

\* POST /api/sessions/create
Create(hostName, draws) ==
  LET validation == validateUsername(hostName)
      gen == generateSessionCode(World, draws)
      hostId == nextUser
      session == [code |-> gen.code, hostId |-> hostId, members |-> <<>>,
                  messages |-> <<>>, age |-> 0, status |-> "active",
                  cleanupTimer |-> NULL]
      W == [World EXCEPT !.sessions[gen.code] = nextSid, !.heap[nextSid] = session]
  IN  /\ nextUser <= MaxUsers
      /\ nextSid <= MaxSessions
      /\ IF ~validation.valid
           THEN /\ Commit(World, Op("Create", NULL, "", NULL, "400"))
                /\ UNCHANGED <<tokens, nextUser, nextSid>>
         ELSE IF gen.thrown
           THEN /\ Commit(World, Op("Create", NULL, "", draws, "500"))
                /\ UNCHANGED <<tokens, nextUser, nextSid>>
         ELSE /\ Commit(W, Op("Create", NULL, gen.code, draws, "ok"))
              /\ tokens' = tokens \cup
                   {createToken(hostId, validation.username, gen.code, TRUE)}
              /\ nextUser' = nextUser + 1
              /\ nextSid' = nextSid + 1

Join_NoEndedCheck(sessionCode, username) ==
  LET validation == validateUsername(username)
      code == toUpperCase(sessionCode)
      sid == get(World, code)
      userId == nextUser
      res == IF sessionCode = "" THEN "400 code required"
             ELSE IF ~validation.valid THEN "400 username"
             ELSE IF sid = NULL THEN "404 not found"
             ELSE IF Len(heap[sid].members) >= MAX_MEMBERS_PER_SESSION THEN "400 full"
             ELSE "ok"
  IN  /\ nextUser <= MaxUsers
      /\ UNCHANGED nextSid
      /\ Commit(World, Op("Join", NULL, code, NULL, res))
      /\ IF res = "ok"
           THEN /\ tokens' = tokens \cup
                     {createToken(userId, validation.username, code, FALSE)}
                /\ nextUser' = nextUser + 1
           ELSE UNCHANGED <<tokens, nextUser>>

\* POST /api/sessions/join
Join(sessionCode, username) ==
  LET validation == validateUsername(username)
      code == toUpperCase(sessionCode)
      sid == get(World, code)
      userId == nextUser
      res == IF sessionCode = "" THEN "400 code required"
             ELSE IF ~validation.valid THEN "400 username"
             ELSE IF sid = NULL THEN "404 not found"
             ELSE IF heap[sid].status = "ended" THEN "400 ended"
             ELSE IF Len(heap[sid].members) >= MAX_MEMBERS_PER_SESSION THEN "400 full"
             ELSE "ok"
  IN  /\ nextUser <= MaxUsers
      /\ UNCHANGED nextSid
      /\ Commit(World, Op("Join", NULL, code, NULL, res))
      /\ IF res = "ok"
           THEN /\ tokens' = tokens \cup
                     {createToken(userId, validation.username, code, FALSE)}
                /\ nextUser' = nextUser + 1
           ELSE UNCHANGED <<tokens, nextUser>>

\* A client opens a connection with a token: io.use, then io.on('connection').
\* Socket ids are handed out in turn.
Connect(s, token) ==
  LET decoded == verifyToken(token)
      res == IF token.sig = "none" THEN "no token"
             ELSE IF decoded = NoClaims THEN "invalid token"
             ELSE IF get(World, toUpperCase(decoded.sessionCode)) = NULL
               THEN "session not found"
             ELSE "ok"
  IN  /\ sockets[s].state = "idle"
      /\ \A r \in Sockets : r < s => sockets[r].state # "idle"
      /\ UNCHANGED <<tokens, nextUser, nextSid>>
      /\ IF res = "ok"
           THEN Commit(connectionHandler(World, s, decoded),
                       Op("Connect", s, toUpperCase(decoded.sessionCode), token, res))
           ELSE Commit(World, Op("Connect", s, "", token, res))

Connected(s) == sockets[s].state = "connected"

ChatMessage(s, text) ==
  /\ Connected(s)
  /\ validateMessage(text).valid => Len(heap[sockets[s].session].messages) < MaxMsgs
  /\ Commit(chatMessage(World, s, text),
            Op("chat:message", s, sockets[s].sessionCode, text, ""))
  /\ UNCHANGED <<tokens, nextUser, nextSid>>

HostLeave(s) ==
  /\ Connected(s)
  /\ Commit(hostLeave(World, s), Op("host:leave", s, sockets[s].sessionCode, NULL, ""))
  /\ UNCHANGED <<tokens, nextUser, nextSid>>

\* The bound on pending teardowns holds back the behaviours that go on; the
\* observed operation, which ends its behaviour, runs whatever is pending.
PendingEnd ==
  BagCardinality(timers) - Cardinality({t \in BagToSet(timers) : t.kind = "grace"})

SessionEnd(s) ==
  /\ Connected(s)
  /\ Commit(sessionEnd(World, s), Op("session:end", s, sockets[s].sessionCode, NULL, ""))
  /\ (sockets[s].isHost /\ op'.name = "") => PendingEnd < MaxEndTimers
  /\ UNCHANGED <<tokens, nextUser, nextSid>>

MemberKick(s, targetUserId, now) ==
  /\ Connected(s)
  /\ Commit(memberKick(World, s, targetUserId, now),
            Op("member:kick", s, sockets[s].sessionCode, targetUserId, ""))
  /\ UNCHANGED <<tokens, nextUser, nextSid>>

MemberLeave(s) ==
  /\ Connected(s)
  /\ Commit(memberLeave(World, s), Op("member:leave", s, sockets[s].sessionCode, NULL, ""))
  /\ UNCHANGED <<tokens, nextUser, nextSid>>

Typing(s, ev) ==
  /\ Connected(s)
  /\ Commit(typing(World, s, ev), Op(ev, s, sockets[s].sessionCode, NULL, ""))
  /\ UNCHANGED <<tokens, nextUser, nextSid>>

\* The transport of a connection closes: the client went away, or the close
\* a kick started has completed.
Disconnect(s) ==
  /\ sockets[s].state \in {"connected", "closing"}
  /\ Commit(onclose(World, s), Op("disconnect", s, sockets[s].sessionCode, NULL, ""))
  /\ UNCHANGED <<tokens, nextUser, nextSid>>

\* A due timer fires.
Fire(t) ==
  /\ BagIn(t, timers)
  /\ t.left = 0
  /\ LET W == [World EXCEPT !.timers = @ (-) SetToBag({t})]
     IN  IF t.kind = "grace"
           THEN Commit(cleanupCallback(W, t.code), Op("cleanup timer", NULL, t.code, t, ""))
           ELSE Commit(sessionEndCallback(W, t.code), Op("end timer", NULL, t.code, t, ""))
  /\ UNCHANGED <<tokens, nextUser, nextSid>>

\* The hourly sweep runs.
Sweep(order) ==
  /\ Commit(sweep(World, order), Op("sweep", NULL, "", NULL, ""))
  /\ UNCHANGED <<tokens, nextUser, nextSid>>

\* One tick passes; nothing is due.
Tick ==
  /\ op.name = ""
  /\ \A t \in BagToSet(timers) : t.left > 0
  /\ timers' = BagOfAll(LAMBDA t : [t EXCEPT !.left = @ - 1], timers)
  /\ heap' = [sid \in Sids |->
                IF \E c \in Codes : sessions[c] = sid
                  THEN [heap[sid] EXCEPT !.age = IF @ > MAX_SESSION_AGE THEN @ ELSE @ + 1]
                  ELSE heap[sid]]
  /\ UNCHANGED <<op, out>>
  /\ UNCHANGED <<sessions, sockets, rooms, tokens, nextUser, nextSid>>

CodeOrders == {<<"A", "B">>, <<"B", "A">>}

Next ==
  \/ \E hostName \in Names, draws \in DrawSeqs : Create(hostName, draws)
  \/ \E sessionCode \in CodeInputs, username \in Names : Join(sessionCode, username)
  \/ \E s \in 1..MaxSockets,
          token \in tokens \cup ForgedTokens \cup ExpiredTokens \cup {NoToken} :
        Connect(s, token)
  \/ \E s \in Sockets, text \in Texts : ChatMessage(s, text)
  \/ \E s \in Sockets : HostLeave(s)
  \/ \E s \in Sockets : SessionEnd(s)
  \/ \E s \in Sockets, targetUserId \in Users \cup {NULL}, now \in BOOLEAN :
        MemberKick(s, targetUserId, now)
  \/ \E s \in Sockets : MemberLeave(s)
  \/ \E s \in Sockets, ev \in {"typing:start", "typing:stop"} : Typing(s, ev)
  \/ \E s \in Sockets : Disconnect(s)
  \/ \E t \in BagToSet(timers) : Fire(t)
  \/ \E order \in CodeOrders : Sweep(order)
  \/ Tick

Spec == Init /\ [][Next]_vars

\* The behaviours without an observed operation.
Unobserved == Next /\ op'.name = ""

CoreSpec == Init /\ [][Unobserved]_vars

\* ================================================================== claims
Registered(sid) == \E c \in Codes : sessions[c] = sid

Live(s) == sockets[s].state \in {"connected", "closing"}

UserIds(members) == {members[i].userId : i \in 1..Len(members)}

Sent(ev) == {i \in 1..Len(out) : out[i].ev = ev}

IsSuffix(a, b) ==
  /\ Len(a) <= Len(b)
  /\ \A i \in 1..Len(a) : a[i] = b[Len(b) - Len(a) + i]

\* C1: every change of a session's status is Active->HostLeft,
\* HostLeft->Ended or Active->Ended; the status never moves backwards.
\* ("none" is the status of no object: before creation, after reclamation.)
StatusStep(from, to) ==
  \/ from = to
  \/ from = "none" \/ to = "none"
  \/ from = "active" /\ to \in {"host-left", "ended"}
  \/ from = "host-left" /\ to = "ended"

C1_StatusNeverRegresses ==
  [][\A sid \in Sids : StatusStep(heap[sid].status, heap'[sid].status)]_vars

\* C2: the userIds of session.members are exactly the userIds with a
\* connection attached to the session's room, none of them twice.
C2_MembersAreTheAttached ==
  \A c \in Codes : sessions[c] # NULL =>
    LET members == heap[sessions[c]].members
    IN  /\ UserIds(members) = {sockets[s].userId : s \in Range(rooms[c])}
        /\ Cardinality(UserIds(members)) = Len(members)

\* C3: an attach whose userId is already a member only replaces that
\* member's connection reference, leaves the member count unchanged and
\* broadcasts no member-joined.
C3_ReconnectOnlyReplacesSocket ==
  [][(op'.name = "Connect" /\ op'.res = "ok") =>
       LET sid == sessions[op'.code]
           members == heap[sid].members
       IN  op'.arg.userId \in UserIds(members) =>
             /\ heap'[sid].members =
                  [i \in 1..Len(members) |->
                     IF members[i].userId = op'.arg.userId
                       THEN [members[i] EXCEPT !.socketId = op'.s]
                       ELSE members[i]]
             /\ Len(heap'[sid].members) = Len(members)
             /\ \A i \in 1..Len(out') : out'[i].ev # "member:joined"]_vars

\* A reconnect has happened while the user's earlier connection is still in
\* the room to observe it.
C3_Witness ==
  /\ op.name = "Connect" /\ op.res = "ok"
  /\ \E s \in Range(rooms[op.code]) : s # op.s /\ sockets[s].userId = op.arg.userId

\* C4: every session holds at most one member per userId.
C4_OneMemberPerUser ==
  \A sid \in Sids : Cardinality(UserIds(heap[sid].members)) = Len(heap[sid].members)

\* Two connections of one user are attached to a registered session.
C4_Witness ==
  \E s \in Sockets, t \in Sockets :
    /\ s # t /\ Live(s) /\ Live(t)
    /\ sockets[s].userId = sockets[t].userId
    /\ sockets[s].session = sockets[t].session
    /\ Registered(sockets[s].session)
    /\ Len(heap[sockets[s].session].members) = 1

\* C5: the chat messages of one session reach every connection in the room
\* in the order of session.messages: what a connection has been sent of a
\* session's messages is the log from some point up to its end.
Of(sid, chat) == SelectSeq(chat, LAMBDA m : m.messageId[1] = sid)

C5_OneOrderForAll ==
  \A s \in Sockets, sid \in Sids :
    (Live(s) /\ heap[sid].code = sockets[s].sessionCode) =>
      IsSuffix(Of(sid, sockets[s].chat), heap[sid].messages)

\* Two connections have each been sent the two messages of the log, which
\* two different connections submitted.
C5_Witness ==
  \E s \in Sockets, t \in Sockets :
    /\ s # t /\ Live(s) /\ Live(t)
    /\ sockets[s].session = sockets[t].session
    /\ Len(sockets[s].chat) = 2
    /\ sockets[s].chat = sockets[t].chat
    /\ sockets[s].chat = heap[sockets[s].session].messages
    /\ sockets[s].chat[1].userId # sockets[s].chat[2].userId

GraceTimers(sid) == {t \in BagToSet(timers) : t.kind = "grace" /\ t.owner = sid}

\* C6: a session that has become empty stays registered while its grace
\* period runs, and a connection that attaches before the timer fires
\* cancels the timer and finds the log and the status as they were when the
\* session became empty.
C6_EmptySessionKept ==
  [][\A sid \in Sids :
       (Registered(sid) /\ heap[sid].members = <<>> /\ GraceTimers(sid) # {}) =>
         /\ (\E t \in GraceTimers(sid) : t.left > 0) => \E c \in Codes : sessions'[c] = sid
         /\ (\E c \in Codes : sessions'[c] = sid) =>
              /\ heap'[sid].messages = heap[sid].messages
              /\ heap'[sid].status = heap[sid].status
              /\ heap'[sid].members # <<>> =>
                   \A t \in BagToSet(timers') : ~(t.kind = "grace" /\ t.owner = sid)]_vars

\* C7: a session is removed at most once, and once it has been removed no
\* grace timer armed for it is still pending.
C7_NoTimerOutlivesItsSession ==
  \A t \in BagToSet(timers) : t.kind = "grace" => sessions[t.code] = t.owner

\* C8: a scheduled task that fires after its session was deleted, or after
\* the code was taken by a newer session, disconnects nobody and deletes
\* nothing.
C8_StaleTimerDoesNothing ==
  [][(op'.name \in {"cleanup timer", "end timer"}
        /\ sessions[op'.code] # op'.arg.owner) =>
       /\ sessions' = sessions
       /\ rooms' = rooms]_vars

\* C9: the sweep removes every session older than the max age, whatever its
\* status and members, after sending each connection of its room the expiry
\* notice and then disconnecting it; it leaves the other sessions untouched.
C9_SweepRemovesExactlyTheOld ==
  [][op'.name = "sweep" =>
       \A c \in Codes : sessions[c] # NULL =>
         IF heap[sessions[c]].age > MAX_SESSION_AGE
           THEN /\ sessions'[c] = NULL
                /\ \A s \in Range(rooms[c]) :
                     /\ sockets'[s].state = "closed"
                     /\ \E i \in 1..Len(out'), j \in 1..Len(out') :
                          /\ i < j
                          /\ out'[i].to = s /\ out'[i].ev = "session:ended"
                          /\ out'[j].to = s /\ out'[j].ev = "disconnect"
           ELSE /\ sessions'[c] = sessions[c]
                /\ heap'[sessions[c]] = heap[sessions[c]]
                /\ rooms'[c] = rooms[c]
                /\ \A s \in Range(rooms[c]) : sockets'[s] = sockets[s]]_vars

\* The sweep has expired an occupied session and kept a younger one.
C9_Witness ==
  /\ op.name = "sweep"
  /\ Sent("session:ended") # {}
  /\ \E c \in Codes : sessions[c] # NULL /\ rooms[c] # <<>>

\* ---------------------------------------------------------------- fairness
\* Time passes and due timers fire (the Node event loop runs them): weak
\* fairness of Tick and of the firing of due timers, WF_vars(Tick) and
\* WF_vars(FireDue), each written out as
\*   []<>~ENABLED <<A>>_vars \/ []<><<A>>_vars
\* with the enabling condition spelled out.
FireDue == \E t \in BagToSet(timers) : Fire(t) /\ op'.name = ""

\* ENABLED <<FireDue>>_vars: firing takes the due timer out of the bag.
FireDueEnabled == op.name = "" /\ \E t \in BagToSet(timers) : t.left = 0

\* ENABLED <<Tick>>_vars: a tick changes the time left of a pending timer or
\* the age of a registered session that is not yet past the max age.
TickEnabled ==
  /\ op.name = ""
  /\ \A t \in BagToSet(timers) : t.left > 0
  /\ \/ timers # EmptyBag
     \/ \E c \in Codes : sessions[c] # NULL /\ heap[sessions[c]].age <= MAX_SESSION_AGE

FairSpec ==
  /\ Init /\ [][Unobserved]_vars
  /\ ([]<>~TickEnabled \/ []<><<Tick>>_vars)
  /\ ([]<>~FireDueEnabled \/ []<><<FireDue>>_vars)

IsPrefix(a, b) == Len(a) <= Len(b) /\ \A i \in 1..Len(a) : a[i] = b[i]

\* What the observed operation sent to socket s, in order.
SentTo(s, ev) == {i \in 1..Len(out) : out[i].to = s /\ out[i].ev = ev}

\* C11: a host:leave on a session that is already HostLeft and a session:end
\* on a session that is already Ended are no-ops and no errors: the session
\* and the work scheduled for it are what they were before the call, and the
\* caller is sent no error.
C11_RepeatIsNoOp ==
  [][(op'.name \in {"host:leave", "session:end"} /\ sockets[op'.s].isHost) =>
       LET sid == sockets[op'.s].session
       IN  (heap[sid].status = (IF op'.name = "host:leave" THEN "host-left" ELSE "ended")) =>
             /\ heap'[sid] = heap[sid]
             /\ timers' = timers
             /\ \A i \in 1..Len(out') : out'[i].ev # "error"]_vars

\* C12: a connection that is not the host's and sends host:leave,
\* session:end or member:kick is sent an error, it alone; no session, room,
\* connection or timer changes and nothing else is sent.
C12_NonHostOnlyGetsAnError ==
  [][(op'.name \in {"host:leave", "session:end", "member:kick"}
        /\ ~sockets[op'.s].isHost) =>
       /\ sessions' = sessions /\ heap' = heap /\ rooms' = rooms
       /\ sockets' = sockets /\ timers' = timers
       /\ Len(out') = 1 /\ out'[1].to = op'.s /\ out'[1].ev = "error"]_vars

\* A member has sent session:end with the host attached to the same room.
C12_Witness ==
  /\ op.name = "session:end" /\ ~sockets[op.s].isHost
  /\ \E h \in Range(rooms[op.code]) : sockets[h].isHost /\ sockets[h].session = sockets[op.s].session
  /\ SentTo(op.s, "error") # {}

\* The observed chat:message was turned down: the sender alone is sent an
\* error, no log grows and no connection is sent a chat message.
Rejected ==
  /\ \A sid \in Sids : heap'[sid].messages = heap[sid].messages
  /\ \A s \in Sockets : sockets'[s].chat = sockets[s].chat
  /\ Len(out') = 1 /\ out'[1].to = op'.s /\ out'[1].ev = "error"

\* C13: a chat message whose text is empty or longer than 500 characters is
\* rejected with an error to the sender only, is not appended to
\* session.messages and is broadcast to nobody.
C13_EmptyOrLongIsRejected ==
  [][(op'.name = "chat:message"
        /\ (~op'.arg.str \/ length(op'.arg) = 0 \/ length(op'.arg) > MAX_MESSAGE_LENGTH))
       => Rejected]_vars

\* C13, amended: the text is measured after trimming: a chat message that is
\* no string, or is empty or longer than 500 characters once the whitespace
\* around it is removed, is rejected with an error to the sender only, is
\* not appended and is broadcast to nobody.
C13_EmptyOrLongTrimmedIsRejected ==
  [][(op'.name = "chat:message"
        /\ (~op'.arg.str \/ length(trim(op'.arg)) = 0
              \/ length(trim(op'.arg)) > MAX_MESSAGE_LENGTH))
       => Rejected]_vars

\* A text of 501 characters with no whitespace around it was sent into a
\* room that holds another connection.
C13_Witness ==
  /\ op.name = "chat:message"
  /\ op.arg.str /\ length(trim(op.arg)) = MAX_MESSAGE_LENGTH + 1
  /\ Len(rooms[op.code]) = 2
  /\ SentTo(op.s, "error") # {}

\* C14: a valid chat message is appended once to the log of the sender's
\* session, with the sender's userId and username, and is sent once to every
\* connection in the room of the session's code, the sender among them, and
\* to no connection outside that room.
C14_ValidMessageOnceToTheRoom ==
  [][(op'.name = "chat:message" /\ validateMessage(op'.arg).valid) =>
       LET s == op'.s
           sid == sockets[s].session
           log == heap'[sid].messages
           m == log[Len(log)]
           room == rooms[sockets[s].sessionCode]
       IN  /\ log = Append(heap[sid].messages, m)
           /\ m.userId = sockets[s].userId
           /\ m.username = sockets[s].username
           /\ m.message = trim(op'.arg)
           /\ \A other \in Sids \ {sid} : heap'[other].messages = heap[other].messages
           /\ s \in Range(room)
           /\ Len(out') = Len(room)
           /\ \A i \in 1..Len(out') :
                out'[i].to = room[i] /\ out'[i].ev = "chat:message" /\ out'[i].arg = m
           /\ \A r \in Sockets :
                sockets'[r].chat = IF r \in Range(room) THEN Append(sockets[r].chat, m)
                                   ELSE sockets[r].chat]_vars

\* A message went to a room of two connections while the log already held
\* one.
C14_Witness ==
  /\ op.name = "chat:message" /\ validateMessage(op.arg).valid
  /\ Len(rooms[op.code]) = 2
  /\ Len(heap[sockets[op.s].session].messages) = 2
  /\ \A r \in Range(rooms[op.code]) : SentTo(r, "chat:message") # {}

\* C15: a join with a code and a valid name fails with NotFound where no
\* session has the code, with Ended where the session has ended, with Full
\* where the members are at the cap, and otherwise issues one non-host
\* identity bound to the code; it changes no session, room or connection.
C15_JoinAnswers ==
  [][(op'.name = "Join" /\ op'.res \notin {"400 code required", "400 username"}) =>
       LET sid == sessions[op'.code]
       IN  /\ op'.res = (IF sid = NULL THEN "404 not found"
                         ELSE IF heap[sid].status = "ended" THEN "400 ended"
                         ELSE IF Len(heap[sid].members) >= MAX_MEMBERS_PER_SESSION
                           THEN "400 full"
                         ELSE "ok")
           /\ IF op'.res = "ok"
                THEN \E t \in tokens' \ tokens :
                       /\ tokens' = tokens \cup {t}
                       /\ ~t.isHost /\ t.sessionCode = op'.code
                       /\ \A u \in tokens : u.userId # t.userId
                ELSE tokens' = tokens
           /\ sessions' = sessions /\ heap' = heap /\ rooms' = rooms
           /\ sockets' = sockets /\ timers' = timers]_vars

\* A join was turned down because the session's members are at the cap.
C15_Witness ==
  /\ op.name = "Join" /\ op.res = "400 full"
  /\ heap[sessions[op.code]].status # "ended"

\* C16: create returns a code that was not in the registry, registers under
\* it a new Active session without members and messages and touches no
\* other session; a create that fails, as it does when all ten draws are
\* codes in the registry, leaves the registry as it was.
C16_CreateNeverOverwrites ==
  [][op'.name = "Create" =>
       /\ op'.res = "ok" =>
            /\ sessions[op'.code] = NULL
            /\ sessions'[op'.code] = nextSid
            /\ \A c \in Codes \ {op'.code} : sessions'[c] = sessions[c]
            /\ \A sid \in Sids \ {nextSid} : heap'[sid] = heap[sid]
            /\ heap'[nextSid].status = "active"
            /\ heap'[nextSid].members = <<>>
            /\ heap'[nextSid].messages = <<>>
       /\ op'.res # "ok" => sessions' = sessions /\ heap' = heap /\ tokens' = tokens
       /\ (op'.res # "400"
             /\ \A i \in 1..MAX_CODE_ATTEMPTS : sessions[op'.arg[i]] # NULL) => op'.res = "500"]_vars

\* All ten draws were codes of registered sessions and the create failed.
C16_Witness ==
  /\ op.name = "Create" /\ op.res = "500"
  /\ \A i \in 1..MAX_CODE_ATTEMPTS : sessions[op.arg[i]] # NULL
  /\ \E c \in Codes : sessions[c] = NULL

\* C17: a connection whose token is missing, invalid or expired, or names a
\* code that is not in the registry, is rejected before anything changes: no
\* session, timer, room or connection changes and nothing is sent.
C17_RejectedBeforeAnyMutation ==
  [][(op'.name = "Connect"
        /\ (op'.arg.sig # "ok" \/ op'.arg.expired
              \/ sessions[toUpperCase(op'.arg.sessionCode)] = NULL)) =>
       /\ op'.res # "ok"
       /\ sessions' = sessions /\ heap' = heap /\ timers' = timers
       /\ rooms' = rooms /\ sockets' = sockets
       /\ out' = <<>>]_vars

\* A token this server issued was presented after its session had been
\* removed, while another session had a connection attached.
C17_Witness ==
  /\ op.name = "Connect" /\ op.res = "session not found"
  /\ op.arg \in tokens
  /\ \E c \in Codes : rooms[c] # <<>>

\* C18: a message, once appended, is never changed or removed: while a
\* session is registered each step leaves its log a prefix of the log after
\* the step.
C18_LogOnlyGrows ==
  [][\A sid \in Sids :
       (Registered(sid) /\ \E c \in Codes : sessions'[c] = sid) =>
         IsPrefix(heap[sid].messages, heap'[sid].messages)]_vars

\* A registered session holds two messages and has lost all its members
\* since, and a host-left or ended status has been set.
C18_Witness ==
  \E sid \in Sids :
    /\ Registered(sid)
    /\ Len(heap[sid].messages) = 2
    /\ heap[sid].members = <<>>
    /\ heap[sid].status # "active"

\* C19: in every reachable state a session has at most
\* MAX_MEMBERS_PER_SESSION members.
C19_MembersWithinCap ==
  \A sid \in Sids : Len(heap[sid].members) <= MAX_MEMBERS_PER_SESSION

\* C20: every attach sends the snapshot (members, messages, status) to the
\* connecting connection and to no other, and the snapshot lists the
\* attaching user; a genuine join sends member:joined once to every other
\* connection in the room and not to the joiner, a reconnect to nobody.
C20_SnapshotToJoinerJoinedToOthers ==
  [][(op'.name = "Connect" /\ op'.res = "ok") =>
       LET s == op'.s
           sid == sessions[op'.code]
           others == rooms[op'.code]
           genuine == op'.arg.userId \notin UserIds(heap[sid].members)
           states == {i \in 1..Len(out') : out'[i].ev = "session:state"}
           joined == {i \in 1..Len(out') : out'[i].ev = "member:joined"}
       IN  /\ Cardinality(states) = 1
           /\ \A i \in states :
                /\ out'[i].to = s
                /\ out'[i].arg = [members |-> heap'[sid].members,
                                  messages |-> heap[sid].messages,
                                  status |-> heap[sid].status]
                /\ op'.arg.userId \in UserIds(out'[i].arg.members)
                /\ \A j \in joined : i < j
           /\ states \cup joined = 1..Len(out')
           /\ \A j \in joined : out'[j].to # s /\ out'[j].arg = op'.arg.userId
           /\ IF genuine
                THEN /\ Cardinality(joined) = Len(others)
                     /\ {out'[j].to : j \in joined} = Range(others)
                ELSE joined = {}]_vars

\* A new member attached to a room that held another connection, which was
\* sent member:joined.
C20_Witness ==
  /\ op.name = "Connect" /\ op.res = "ok"
  /\ \E r \in Range(rooms[op.code]) : r # op.s /\ SentTo(r, "member:joined") # {}
  /\ SentTo(op.s, "session:state") # {}

\* -------------------------------------------------------- claims C21 .. C30
\* The connections an event of the observed operation went to.
Receivers(ev) == {out'[i].to : i \in {j \in 1..Len(out') : out'[j].ev = ev}}

Times(ev) == Cardinality({j \in 1..Len(out') : out'[j].ev = ev})

\* Connection s is the current connection of a member of the session it
\* attached to.
CurrentOf(s) ==
  /\ sockets[s].session # NULL
  /\ \E i \in 1..Len(heap[sockets[s].session].members) :
       heap[sockets[s].session].members[i].socketId = s

\* What the departure of connection s, a member's current connection, does
\* in this step: the member is removed, member:left goes once to every
\* connection left in the room; a host who departs from a session that has
\* not ended makes it HostLeft and host:left goes to the room as well;
\* otherwise the status stays and no host:left is sent.
Departure(s) ==
  LET sid == sockets[s].session
      session == heap[sid]
      rest == Range(rooms[sockets[s].sessionCode]) \ {s}
      hostLeaves == sockets[s].isHost /\ session.status # "ended"
  IN  /\ heap'[sid].members = SelectSeq(session.members, LAMBDA m : m.socketId # s)
      /\ Len(heap'[sid].members) = Len(session.members) - 1
      /\ Receivers("member:left") = rest
      /\ Times("member:left") = Cardinality(rest)
      /\ \A i \in 1..Len(out') :
           out'[i].ev = "member:left" => out'[i].arg = sockets[s].userId
      /\ heap'[sid].status = IF hostLeaves THEN "host-left" ELSE session.status
      /\ Receivers("host:left") = IF hostLeaves THEN rest ELSE {}
      /\ Times("host:left") = IF hostLeaves THEN Cardinality(rest) ELSE 0
      /\ heap'[sid].messages = session.messages

\* C21: the disconnect of a member's current connection removes the member
\* and broadcasts member:left to the remaining room; a departing host makes
\* the status HostLeft and host:left is broadcast, unless the status is
\* Ended, which stays and then no host:left is sent.
C21_DisconnectRemovesTheMember ==
  [][(op'.name = "disconnect" /\ CurrentOf(op'.s)) =>
       /\ Departure(op'.s)
       /\ sockets[op'.s].userId = heap[sockets[op'.s].session].hostId
            => sockets[op'.s].isHost]_vars

\* The host's connection was closed in an ended session with another
\* connection in the room, which was sent member:left.
C21_Witness ==
  /\ op.name = "disconnect"
  /\ sessions[op.code] # NULL
  /\ heap[sessions[op.code]].status = "ended"
  /\ heap[sessions[op.code]].hostId \notin UserIds(heap[sessions[op.code]].members)
  /\ \E i \in Sent("member:left") : out[i].arg = heap[sessions[op.code]].hostId

C23_GraceTimerRechecks ==
  [][op'.name = "cleanup timer" =>
       LET c == op'.arg.code
           sid == sessions[c]
       IN  /\ \A d \in Codes \ {c} : sessions'[d] = sessions[d]
           /\ sessions'[c] \in {sid, NULL}
           /\ sessions'[c] # sid => heap[sid].members = <<>>
           /\ (sid # NULL /\ heap[sid].members = <<>>) => sessions'[c] = NULL
           /\ (sid # NULL /\ heap[sid].members # <<>>) =>
                /\ sessions' = sessions
                /\ heap' = heap
           /\ sockets' = sockets
           /\ rooms' = rooms
           /\ out' = <<>>]_vars

\* A grace timer has fired against a code whose session had a member, and
\* the session is still registered with that member.
C23_Witness ==
  /\ op.name = "cleanup timer"
  /\ sessions[op.code] # NULL
  /\ heap[sessions[op.code]].members # <<>>

\* What tells a step from a stuttering step: the state apart from the record
\* of the observed operation, and whether an operation has been observed.
seen == <<sessions, heap, nextSid, sockets, rooms, timers, tokens, nextUser, op.name>>

\* POST /api/sessions/create once the observed teardown has run: the
\* request is served as ever, the observation of the teardown is kept.
CreateAfterEnd(hostName, draws) ==
  LET validation == validateUsername(hostName)
      gen == generateSessionCode(World, draws)
      hostId == nextUser
      session == [code |-> gen.code, hostId |-> hostId, members |-> <<>>,
                  messages |-> <<>>, age |-> 0, status |-> "active",
                  cleanupTimer |-> NULL]
      V == Reclaim([World EXCEPT !.sessions[gen.code] = nextSid,
                                 !.heap[nextSid] = session])
  IN  /\ op.name = "end timer"
      /\ nextUser <= MaxUsers
      /\ nextSid <= MaxSessions
      /\ validation.valid /\ ~gen.thrown
      /\ sessions' = V.sessions
      /\ heap' = V.heap
      /\ sockets' = V.sockets
      /\ rooms' = V.rooms
      /\ timers' = V.timers
      /\ tokens' = tokens \cup {createToken(hostId, validation.username, gen.code, TRUE)}
      /\ nextUser' = nextUser + 1
      /\ nextSid' = nextSid + 1
      /\ UNCHANGED <<op, out>>

\* The behaviours in which the observed operation, if any, is a session:end,
\* a join or a teardown, and in which sessions are still created after an
\* observed teardown; time passes and due timers fire as in FairSpec, the
\* former stated as weak fairness.
EndObserved ==
  \/ Next /\ op'.name \in {"", "session:end", "Join", "end timer"}
  \/ \E hostName \in Names, draws \in DrawSeqs : CreateAfterEnd(hostName, draws)

EndSpec ==
  /\ Init /\ [][EndObserved]_vars
  /\ WF_seen(Tick)
  /\ ([]<>~FireDueEnabled \/ []<><<FireDue>>_seen)

EndPending(c) == \E t \in BagToSet(timers) : t.kind = "end" /\ t.code = c

\* The teardown armed for code c runs in this step.
EndFires(c) ==
  \E t \in BagToSet(timers) :
    /\ t.kind = "end" /\ t.code = c /\ t.left = 0
    /\ CopiesIn(t, timers') < CopiesIn(t, timers)

\* The host's session:end makes the status Ended, sends session:ended once to
\* every connection of the room and arms the teardown with the fixed delay.
EndBroadcasts ==
  (op'.name = "session:end" /\ sockets[op'.s].isHost) =>
    /\ heap'[sockets[op'.s].session].status = "ended"
    /\ Receivers("session:ended") = Range(rooms[op'.code])
    /\ Times("session:ended") = Len(rooms[op'.code])
    /\ BagIn(Timer("end", op'.code, sockets[op'.s].session, SESSION_END_DELAY), timers')
    /\ sessions' = sessions /\ rooms' = rooms /\ sockets' = sockets

\* A pending teardown stays pending until it runs, and when it runs every
\* connection in the room is closed and the code is unregistered.
TeardownRuns ==
  \A c \in Codes :
    /\ (EndPending(c) /\ ~EndFires(c)) =>
         \A t \in BagToSet(timers) : (t.kind = "end" /\ t.code = c) =>
            \E u \in BagToSet(timers') :
               u.kind = "end" /\ u.code = c /\ u.left \in {t.left, t.left - 1}
    /\ EndFires(c) =>
         /\ sessions'[c] = NULL
         /\ rooms'[c] = <<>>
         /\ \A s \in Range(rooms[c]) : sockets'[s].state = "closed"

\* While no session is registered under a code a join for it is answered
\* not found (or refused for its username) and issues no identity, and no
\* connection attaches to it.
UnregisteredRefuses ==
  /\ (op'.name = "Join" /\ op'.code \in Codes /\ sessions[op'.code] = NULL) =>
       /\ op'.res \in {"404 not found", "400 username"}
       /\ tokens' = tokens
  /\ \A s \in Sockets :
       (sockets[s].state = "idle" /\ sockets'[s].state # "idle") =>
          /\ sockets'[s].state = "connected"
          /\ sessions[sockets'[s].sessionCode] # NULL
          /\ sockets'[s].session = sessions[sockets'[s].sessionCode]

\* C24 as stated: the host's session:end makes the status Ended and
\* session:ended is broadcast to the room; after the fixed delay every
\* connection still in the room has been disconnected and the session is no
\* longer in the registry, and from then on no session is registered under
\* the code, so that join and attach for it fail as not found.
C24_GoneFromThenOn ==
  /\ [][EndBroadcasts /\ TeardownRuns /\ UnregisteredRefuses]_seen
  /\ \A c \in Codes :
       EndPending(c) ~> (op.name # "" \/ (sessions[c] = NULL /\ rooms[c] = <<>>))
  /\ [](op.name = "end timer" => sessions[op.code] = NULL)

\* C24, amended: as above up to the teardown; join and attach for the code
\* fail as not found for as long as no later create has registered a new
\* session under the same code.
C24_EndThenTeardown ==
  /\ [][EndBroadcasts /\ TeardownRuns /\ UnregisteredRefuses]_seen
  /\ \A c \in Codes :
       EndPending(c) ~> (op.name # "" \/ (sessions[c] = NULL /\ rooms[c] = <<>>))

\* The host has ended a session with two connections in the room: both were
\* sent session:ended, the status is Ended and the teardown is pending.
C24_Witness ==
  /\ op.name = "session:end"
  /\ Cardinality({out[i].to : i \in Sent("session:ended")}) = 2
  /\ heap[sessions[op.code]].status = "ended"
  /\ EndPending(op.code)

\* C25: the host's host:leave makes the status HostLeft and host:left goes
\* to the whole room, the sender included; the member list is the same
\* before and after and every connection stays attached.
C25_HostLeaveKeepsTheHost ==
  [][(op'.name = "host:leave" /\ sockets[op'.s].isHost) =>
       LET sid == sockets[op'.s].session
       IN  /\ heap'[sid].status = "host-left"
           /\ heap'[sid].members = heap[sid].members
           /\ heap'[sid].messages = heap[sid].messages
           /\ Receivers("host:left") = Range(rooms[op'.code])
           /\ Times("host:left") = Len(rooms[op'.code])
           /\ op'.s \in Receivers("host:left")
           /\ Len(out') = Times("host:left")
           /\ sockets' = sockets
           /\ rooms' = rooms
           /\ sessions' = sessions
           /\ timers' = timers]_vars

\* The host has left a session in which it and another member are attached:
\* both are still members and both were sent host:left.
C25_Witness ==
  /\ op.name = "host:leave"
  /\ sessions[op.code] # NULL
  /\ heap[sessions[op.code]].status = "host-left"
  /\ Len(heap[sessions[op.code]].members) = 2
  /\ sockets[op.s].userId \in UserIds(heap[sessions[op.code]].members)
  /\ Cardinality({out[i].to : i \in Sent("host:left")}) = 2

\* The observed operation answered its sender with one error and changed
\* nothing.
OnlyError(message) ==
  /\ Len(out') = 1
  /\ out'[1].to = op'.s /\ out'[1].ev = "error" /\ out'[1].arg = message
  /\ heap' = heap /\ sessions' = sessions /\ sockets' = sockets
  /\ rooms' = rooms /\ timers' = timers

\* C26: a kick by the host is answered "Member not found" when the target
\* userId is not a member and "Cannot kick the host" when the target is the
\* host, changing nothing; otherwise the target's connection is sent
\* session:kicked and is disconnected at once: the target is no longer a
\* member, the rest of the room was sent member:left, the status and the
\* host's membership are as before.  (Where the transport is slow to close
\* the connection is closing, no longer served, and the removal follows
\* with its disconnect, C21.)
C26_KickRemovesTheTarget ==
  [][(op'.name = "member:kick" /\ sockets[op'.s].isHost /\ op'.arg # NULL) =>
       LET sid == sockets[op'.s].session
           members == heap[sid].members
           targetIndex == findIndex(members, LAMBDA m : m.userId = op'.arg)
           target == members[targetIndex].socketId
           rest == Range(rooms[op'.code]) \ {target}
       IN  IF targetIndex = 0 THEN OnlyError("Member not found")
           ELSE IF members[targetIndex].isHost THEN OnlyError("Cannot kick the host")
           ELSE /\ sockets[target].state \in {"connected", "closing"}
                /\ out'[1].to = target /\ out'[1].ev = "session:kicked"
                /\ Times("session:kicked") = 1
                /\ Times("error") = 0
                /\ sockets'[target].state \in {"closed", "closing"}
                /\ \A r \in Sockets \ {target} : sockets'[r] = sockets[r]
                /\ heap'[sid].status = heap[sid].status
                /\ heap'[sid].messages = heap[sid].messages
                /\ SelectSeq(heap'[sid].members, LAMBDA m : m.isHost)
                     = SelectSeq(members, LAMBDA m : m.isHost)
                /\ Times("host:left") = 0
                /\ sessions' = sessions
                /\ IF sockets'[target].state = "closed"
                     THEN /\ heap'[sid].members =
                               SelectSeq(members, LAMBDA m : m.userId # op'.arg)
                          /\ op'.arg \notin UserIds(heap'[sid].members)
                          /\ Receivers("member:left") = rest
                          /\ Times("member:left") = Cardinality(rest)
                          /\ \A i \in 1..Len(out') :
                               out'[i].ev = "member:left" => out'[i].arg = op'.arg
                          /\ target \notin Range(rooms'[op'.code])
                     ELSE /\ heap' = heap
                          /\ rooms' = rooms
                          /\ Len(out') = 1
                          /\ CurrentOf(target)]_vars

\* The host has kicked the other member: the member's connection was sent
\* session:kicked and is closed, the host was sent member:left and is the
\* only member left.
C26_Witness ==
  /\ op.name = "member:kick"
  /\ sessions[op.code] # NULL
  /\ \E i \in Sent("session:kicked") : sockets[out[i].to].state = "closed"
  /\ \E i \in Sent("member:left") : out[i].to = op.s /\ out[i].arg = op.arg
  /\ UserIds(heap[sessions[op.code]].members) = {sockets[op.s].userId}
  /\ sockets[op.s].userId = heap[sessions[op.code]].hostId

\* C27: a session whose status has left Active is never Active again; an
\* attach, the original host's included, leaves the status as it found it
\* and reports that status in the snapshot.
C27_NeverActiveAgain ==
  [][/\ \A sid \in Sids :
          heap[sid].status \in {"host-left", "ended"} => heap'[sid].status # "active"
     /\ (op'.name = "Connect" /\ op'.res = "ok") =>
          /\ heap'[sessions[op'.code]].status = heap[sessions[op'.code]].status
          /\ \A i \in 1..Len(out') :
               out'[i].ev = "session:state" =>
                 out'[i].arg.status = heap[sessions[op'.code]].status]_vars

\* The host of a HostLeft session has attached again: the host is a member
\* and the status is still HostLeft.
C27_Witness ==
  /\ op.name = "Connect" /\ op.res = "ok"
  /\ op.arg.isHost
  /\ op.arg.userId = heap[sessions[op.code]].hostId
  /\ heap[sessions[op.code]].status = "host-left"
  /\ op.arg.userId \in UserIds(heap[sessions[op.code]].members)

\* C28: a member has isHost only if its userId is the hostId of its session,
\* so that a session has at most one host member.
C28_HostFlagIsTheHostId ==
  \A sid \in Sids :
    LET members == heap[sid].members
    IN  /\ \A i \in 1..Len(members) :
             members[i].isHost => members[i].userId = heap[sid].hostId
        /\ Cardinality({i \in 1..Len(members) : members[i].isHost}) <= 1

\* C29: typing:start and typing:stop are relayed once to every other
\* connection in the sender's room, carrying the sender's userId, and never
\* to the sender; members, messages, status and cleanup timer of every
\* session, the registry, the rooms and the connections stay as they were.
C29_TypingIsOnlyRelayed ==
  [][op'.name \in {"typing:start", "typing:stop"} =>
       LET rest == Range(rooms[op'.code]) \ {op'.s}
       IN  /\ op'.s \in Range(rooms[op'.code])
           /\ Receivers(op'.name) = rest
           /\ Times(op'.name) = Cardinality(rest)
           /\ Len(out') = Cardinality(rest)
           /\ \A i \in 1..Len(out') : out'[i].arg = sockets[op'.s].userId
           /\ heap' = heap
           /\ timers' = timers
           /\ sessions' = sessions
           /\ rooms' = rooms
           /\ sockets' = sockets]_vars

\* A connection's typing:stop was relayed to the other connection of the
\* room, another user's, in a session whose log has a message.
C29_Witness ==
  /\ op.name = "typing:stop"
  /\ Len(out) = 1
  /\ out[1].to # op.s
  /\ out[1].to \in Range(rooms[op.code])
  /\ sockets[out[1].to].userId # sockets[op.s].userId
  /\ heap[sessions[op.code]].messages # <<>>

\* What a transport disconnect of connection s does from the current state.
AsDisconnect(s) == Reclaim(onclose(World, s))

\* C30: member:leave from a connection leaves the members, the status, the
\* cleanup timer and the broadcasts (member:left, host:left) that a
\* transport disconnect of that connection leaves from the same state, and
\* the disconnect handler runs once: the connection is closed by it, and a
\* closed connection is never disconnected again.
C30_LeaveIsADisconnect ==
  [][/\ op'.name = "member:leave" =>
          /\ heap' = AsDisconnect(op'.s).heap
          /\ timers' = AsDisconnect(op'.s).timers
          /\ sessions' = AsDisconnect(op'.s).sessions
          /\ rooms' = AsDisconnect(op'.s).rooms
          /\ out' = AsDisconnect(op'.s).out
          /\ CurrentOf(op'.s) =>
               /\ Departure(op'.s)
               /\ heap'[sockets[op'.s].session].members = <<>> =>
                    BagIn(Timer("grace", op'.code, sockets[op'.s].session,
                                SESSION_CLEANUP_GRACE_PERIOD), timers')
          /\ ~CurrentOf(op'.s) =>
               /\ \A sid \in Sids : Registered(sid) => heap'[sid] = heap[sid]
               /\ timers' = timers
          /\ Times("disconnect") = 1
          /\ sockets'[op'.s].state = "closed"
          /\ op'.s \notin Range(rooms'[op'.code])
     /\ \A i \in 1..Len(out') :
          out'[i].ev = "disconnect" =>
            /\ Live(out'[i].to)
            /\ sockets'[out'[i].to].state = "closed"
            /\ \A j \in 1..Len(out') :
                 (out'[j].ev = "disconnect" /\ out'[j].to = out'[i].to) => j = i
     /\ \A s \in Sockets : sockets[s].state = "closed" => sockets'[s] = sockets[s]]_vars

\* The host has left by member:leave while another member is attached: the
\* other connection was sent member:left and host:left, the session is
\* HostLeft and the host's connection is closed.
C30_Witness ==
  /\ op.name = "member:leave"
  /\ sockets[op.s].state = "closed"
  /\ sessions[op.code] # NULL
  /\ heap[sessions[op.code]].status = "host-left"
  /\ Len(heap[sessions[op.code]].members) = 1
  /\ Sent("member:left") # {}
  /\ Sent("host:left") # {}
  /\ Cardinality(Sent("disconnect")) = 1

\* -------------------------------------------------------- claims C31 .. C39
\* C31: in every reachable state a registered session whose cleanup timer
\* is pending has no members: the timer is armed at an empty member list
\* only and every attach cancels it before it adds or updates the member.
C31_TimerOnlyWhileEmpty ==
  \A sid \in Sids :
    (Registered(sid) /\ GraceTimers(sid) # {}) =>
      /\ heap[sid].members = <<>>
      /\ heap[sid].cleanupTimer = sid

\* The cleanup timer of a registered session is pending, the session has no
\* members, and a connection (a superseded one) is still in its room.
C31_Witness ==
  \E c \in Codes :
    /\ sessions[c] # NULL
    /\ GraceTimers(sessions[c]) # {}
    /\ heap[sessions[c]].members = <<>>
    /\ rooms[c] # <<>>

\* The connections attached to the room of the session registered under c.
AttachedTo(c) == {s \in Range(rooms[c]) : Live(s) /\ sockets[s].session = sessions[c]}

\* C32: the grace timer never removes a session from the registry while a
\* connection is attached to the session's room, a connection superseded by
\* a later one of its user (which has since disconnected) included.
C32_GraceSparesOccupiedRooms ==
  [][\A c \in Codes :
       (op'.name = "cleanup timer" /\ op'.code = c
          /\ sessions[c] # NULL /\ sessions'[c] = NULL) => AttachedTo(c) = {}]_vars

\* C33: in every reachable state each member of a registered session
\* references a connection that is open, is of the member's user and is in
\* the session's room: no member entry outlives the connection it points to.
C33_MembersPointAtOpenConnections ==
  \A c \in Codes : sessions[c] # NULL =>
    LET members == heap[sessions[c]].members
    IN  \A i \in 1..Len(members) :
          /\ Live(members[i].socketId)
          /\ sockets[members[i].socketId].userId = members[i].userId
          /\ sockets[members[i].socketId].session = sessions[c]
          /\ members[i].socketId \in Range(rooms[c])

\* A member's connection has closed and its entry is gone, while the other
\* member of the session is still there.
C33_Witness ==
  /\ op.name = "disconnect"
  /\ sockets[op.s].state = "closed"
  /\ Sent("member:left") # {}
  /\ sessions[op.code] # NULL
  /\ Len(heap[sessions[op.code]].members) = 1

\* Connection s is the connection some member of a registered session
\* references.
ReferencedByAMember(s) ==
  \E c \in Codes : sessions[c] # NULL /\
    \E i \in 1..Len(heap[sessions[c]].members) : heap[sessions[c]].members[i].socketId = s

\* C34: the disconnect of a connection that is no member's current
\* connection (superseded by a reconnect of its user, or its member already
\* removed) leaves the members, the status and the cleanup timer of every
\* registered session as they were and sends neither member:left nor
\* host:left; the connection itself is closed and out of its room.
C34_StaleDisconnectChangesNothing ==
  [][(op'.name \in {"disconnect", "member:leave"} /\ ~ReferencedByAMember(op'.s)) =>
       /\ sessions' = sessions
       /\ \A sid \in Sids : Registered(sid) =>
            /\ heap'[sid].members = heap[sid].members
            /\ heap'[sid].status = heap[sid].status
            /\ heap'[sid].cleanupTimer = heap[sid].cleanupTimer
       /\ timers' = timers
       /\ Times("member:left") = 0
       /\ Times("host:left") = 0
       /\ sockets'[op'.s].state = "closed"
       /\ \A c \in Codes : rooms'[c] = without(rooms[c], op'.s)]_vars

\* A superseded connection has closed: the session still has its member,
\* whose current connection is in the room and was sent no member:left.
C34_Witness ==
  /\ op.name = "disconnect"
  /\ sockets[op.s].state = "closed"
  /\ sessions[op.code] # NULL
  /\ Len(heap[sessions[op.code]].members) = 1
  /\ Len(rooms[op.code]) = 1
  /\ heap[sessions[op.code]].members[1].socketId = rooms[op.code][1]
  /\ Sent("member:left") = {}

\* The behaviours in which hosts create sessions, attach (with a third
\* connection as well), chat and go away, and timers fire; an attach may be
\* the observed operation.
RoomNext ==
  \/ \E hostName \in Names, draws \in DrawSeqs : Create(hostName, draws) /\ op'.name = ""
  \/ \E s \in Sockets, token \in tokens : Connect(s, token)
  \/ \E s \in Sockets, text \in Texts : ChatMessage(s, text) /\ op'.name = ""
  \/ \E s \in Sockets : Disconnect(s) /\ op'.name = ""
  \/ \E t \in BagToSet(timers) : Fire(t) /\ op'.name = ""
  \/ Tick

RoomSpec == Init /\ [][RoomNext]_vars

\* What connection s was sent of chat messages in this step.
Received(s) == SubSeq(sockets'[s].chat, Len(sockets[s].chat) + 1, Len(sockets'[s].chat))

\* C35: for every connection, the messages of the snapshot it was sent at
\* attach followed by the chat:message broadcasts it is sent afterwards are
\* exactly the message log of its session: the snapshot is the log as it is
\* at the attach, and from then on every step appends to the log of the
\* connection's session exactly what it sends the connection.
C35_SnapshotThenBroadcastsIsTheLog ==
  [][\A s \in Sockets :
       /\ (sockets[s].state = "idle" /\ sockets'[s].state = "connected") =>
            /\ sockets'[s].chat = <<>>
            /\ op'.name = "Connect" =>
                 /\ \A i \in 1..Len(out') :
                      (out'[i].to = s /\ out'[i].ev = "session:state") =>
                        out'[i].arg.messages = heap'[sockets'[s].session].messages
                 /\ \E i \in 1..Len(out') : out'[i].to = s /\ out'[i].ev = "session:state"
       /\ (Live(s) /\ sockets'[s].state \in {"connected", "closing"}) =>
            /\ IsPrefix(sockets[s].chat, sockets'[s].chat)
            /\ heap'[sockets[s].session].messages =
                 heap[sockets[s].session].messages \o Received(s)]_vars

\* The events a connection sends, and the attach.
ConnectionEvents ==
  {"Connect", "chat:message", "typing:start", "typing:stop", "host:leave",
   "session:end", "member:kick", "member:leave", "disconnect"}

\* The observed operation is an event of a connection whose user is not the
\* host (hostId) of the session it is attached, or attaching, to.
ByNonHost ==
  /\ op'.name \in ConnectionEvents
  /\ IF op'.name = "Connect"
       THEN op'.res = "ok" => op'.arg.userId # heap[sessions[op'.code]].hostId
       ELSE sockets[op'.s].userId # heap[sockets[op'.s].session].hostId

\* C36: only the host changes the status: no event of a non-host connection
\* (chat, typing, attach, member:leave, disconnect, host-only commands)
\* changes the status of a session, so that executions which differ in such
\* events only give every session the same status.
C36_OnlyTheHostChangesTheStatus ==
  [][ByNonHost =>
       \A sid \in Sids :
         (Registered(sid) /\ heap'[sid].status # "none") =>
           heap'[sid].status = heap[sid].status]_vars

\* C37: once the status of a session is Ended, during the delay before the
\* teardown no new connection is attached to it and no chat message is
\* appended to its log.
C37_EndedSessionIsFrozen ==
  [][\A c \in Codes :
       LET sid == sessions[c]
       IN  (sid # NULL /\ heap[sid].status = "ended" /\ EndPending(c)) =>
             /\ heap'[sid].messages = heap[sid].messages
             /\ \A s \in Sockets :
                  (sockets[s].state = "idle" /\ sockets'[s].state = "connected")
                    => sockets'[s].session # sid]_vars

\* The hourly sweep keeps running (setInterval): weak fairness of the sweep,
\* written out as for Tick and FireDue.  A sweep changes the state when a
\* registered session is past the max age.
SweepRuns == \E order \in CodeOrders : Sweep(order) /\ op'.name = ""

SweepEnabled ==
  op.name = "" /\ \E c \in Codes : sessions[c] # NULL /\ expired(heap[sessions[c]])

SweepSpec ==
  /\ Init /\ [][Unobserved]_vars
  /\ WF_seen(Tick)
  /\ ([]<>~FireDueEnabled \/ []<><<FireDue>>_seen)
  /\ ([]<>~SweepEnabled \/ []<><<SweepRuns>>_seen)

\* No connection has ever attached to session sid: an attach adds a member,
\* and the disconnect that removes the last member sets cleanupTimer.
NeverAttached(sid) == heap[sid].members = <<>> /\ heap[sid].cleanupTimer = NULL

\* C38: with timers and the sweep firing, every session is eventually
\* removed from the registry; a session no connection ever attached to has
\* no grace timer pending and leaves the registry by the max-age sweep only,
\* that is, past the max age.
C38_EverySessionGoes ==
  /\ \A sid \in Sids : Registered(sid) ~> ~Registered(sid)
  /\ [](\A c \in Codes :
          (sessions[c] # NULL /\ NeverAttached(sessions[c])) => GraceTimers(sessions[c]) = {})
  /\ [][\A c \in Codes :
          (sessions[c] # NULL /\ NeverAttached(sessions[c]) /\ sessions'[c] = NULL)
            => expired(heap[sessions[c]])]_seen

\* C39: session-code generation succeeds whenever one of its at most 10
\* draws does not collide with a registered code: a create with a valid host
\* name fails only when every one of the 10 draws collided, and otherwise
\* the code is the first draw that did not collide, the 10th included.
C39_ExhaustedOnlyWhenAllCollide ==
  [][(op'.name = "Create" /\ op'.res \in {"ok", "500"}) =>
       LET draws == op'.arg
           free == {i \in 1..MAX_CODE_ATTEMPTS : sessions[draws[i]] = NULL}
       IN  IF free = {}
             THEN op'.res = "500"
             ELSE /\ op'.res = "ok"
                  /\ \E i \in free : op'.code = draws[i] /\ \A j \in free : i <= j]_seen

====
